---- MODULE Spec2Model ----
(***************************************************************************)
(* Hawkward Finances: the local persistence and session-lifecycle server   *)
(* (server.js with lib/data-utils.js).  The model covers the document      *)
(* file, its two backups, the promise chain behind queueWrite, the         *)
(* auto-shutdown timer and the six HTTP routes.                            *)
(***************************************************************************)
EXTENDS Integers, Sequences, FiniteSets, TLC

(***************************************************************************)
(* JavaScript / JSON values.  Every value is a tagged record so that any   *)
(* two values can be compared.  Strings are sequences of one-character     *)
(* strings.  A number is n + f/10 with n an integer and f one decimal      *)
(* digit.  Objects are functions from property names to values.            *)
(***************************************************************************)
Undefined == [t |-> "undefined"]
Null == [t |-> "null"]
NaN == [t |-> "nan"]
Bool(b) == [t |-> "bool", b |-> b]
Num(n) == [t |-> "num", n |-> n, f |-> 0]
Dec(n, f) == [t |-> "num", n |-> n, f |-> f]
Str(s) == [t |-> "str", s |-> s]
Arr(a) == [t |-> "arr", a |-> a]
Obj(o) == [t |-> "obj", o |-> o]
EmptyObj == Obj([k \in {} |-> Null])
EmptyArr == Arr(<<>>)

\* typeof v === 'object' (null included)
IsObjectType(v) == v.t \in {"obj", "arr", "null"}

\* ToBoolean(v)
Truthy(v) ==
    CASE v.t \in {"undefined", "null", "nan"} -> FALSE
      [] v.t = "bool" -> v.b
      [] v.t = "num" -> ~(v.n = 0 /\ v.f = 0)
      [] v.t = "str" -> v.s # <<>>
      [] OTHER -> TRUE

\* obj[k] for a string key k
Get(v, k) ==
    IF v.t = "obj" /\ k \in DOMAIN v.o THEN v.o[k] ELSE Undefined

\* obj[k] = x as it shows after JSON.stringify: a property set on an array
\* under a non-index name, or on a primitive, does not reach the output
Put(v, k, x) ==
    IF v.t = "obj"
    THEN Obj([j \in DOMAIN v.o \cup {k} |-> IF j = k THEN x ELSE v.o[j]])
    ELSE v

(***************************************************************************)
(* Text and number conversions of the JavaScript runtime.                  *)
(***************************************************************************)
Chars(s) == Str(s)

DigitChars == <<"0", "1", "2", "3", "4", "5", "6", "7", "8", "9">>
IsDigit(c) == \E i \in 1..10 : DigitChars[i] = c
DigitVal(c) == (CHOOSE i \in 1..10 : DigitChars[i] = c) - 1
IsSpace(c) == c \in {" ", "\t", "\n"}

\* s.slice(from - 1) for a 1-based position
DropTo(s, from) == SubSeq(s, from, Len(s))

\* length of the longest prefix of s whose characters all satisfy a test
RECURSIVE SpacePrefix(_)
SpacePrefix(s) ==
    IF s # <<>> /\ IsSpace(Head(s)) THEN 1 + SpacePrefix(Tail(s)) ELSE 0
RECURSIVE SpaceSuffix(_)
SpaceSuffix(s) ==
    IF s # <<>> /\ IsSpace(s[Len(s)])
    THEN 1 + SpaceSuffix(SubSeq(s, 1, Len(s) - 1)) ELSE 0
RECURSIVE DigitPrefix(_)
DigitPrefix(s) ==
    IF s # <<>> /\ IsDigit(Head(s)) THEN 1 + DigitPrefix(Tail(s)) ELSE 0

\* String.prototype.trim
Trim(s) ==
    LET a == SpacePrefix(s)
    IN  IF a = Len(s) THEN <<>>
        ELSE SubSeq(s, a + 1, Len(s) - SpaceSuffix(s))

\* value of a sequence of decimal digits
RECURSIVE DigitsVal(_)
DigitsVal(s) ==
    IF s = <<>> THEN 0
    ELSE 10 * DigitsVal(SubSeq(s, 1, Len(s) - 1)) + DigitVal(s[Len(s)])

\* decimal digits of a natural number
RECURSIVE NatDigits(_)
NatDigits(n) ==
    IF n < 10 THEN <<DigitChars[n + 1]>>
    ELSE NatDigits(n \div 10) \o <<DigitChars[(n % 10) + 1]>>

\* Number::toString of n + f/10
NumToString(v) ==
    LET neg == v.n < 0
        ip == IF neg THEN (IF v.f = 0 THEN -v.n ELSE -(v.n + 1)) ELSE v.n
        fp == IF neg /\ v.f # 0 THEN 10 - v.f ELSE v.f
    IN  (IF neg THEN <<"-">> ELSE <<>>) \o NatDigits(ip)
        \o (IF fp = 0 THEN <<>> ELSE <<".", DigitChars[fp + 1]>>)

RECURSIVE StringOf(_)
RECURSIVE JoinArr(_)
\* Array.prototype.join(',')
JoinArr(a) ==
    IF a = <<>> THEN <<>>
    ELSE (IF Head(a).t \in {"undefined", "null"} THEN <<>> ELSE StringOf(Head(a)))
         \o (IF Len(a) > 1 THEN <<",">> \o JoinArr(Tail(a)) ELSE <<>>)
\* String(v)
StringOf(v) ==
    CASE v.t = "str" -> v.s
      [] v.t = "num" -> NumToString(v)
      [] v.t = "nan" -> <<"N", "a", "N">>
      [] v.t = "bool" -> IF v.b THEN <<"t", "r", "u", "e">>
                         ELSE <<"f", "a", "l", "s", "e">>
      [] v.t = "null" -> <<"n", "u", "l", "l">>
      [] v.t = "undefined" -> <<"u", "n", "d", "e", "f", "i", "n", "e", "d">>
      [] v.t = "arr" -> JoinArr(v.a)
      [] OTHER -> <<"[", "o", "b", "j", "e", "c", "t", " ",
                    "O", "b", "j", "e", "c", "t", "]">>

\* String(v) throws a TypeError: v is an object with an own property
\* toString, which in a value parsed from JSON is never a function, so that
\* the conversion falls to Object.prototype.valueOf, which returns the
\* object itself; an array converts each of its elements
RECURSIVE StringThrows(_)
StringThrows(v) ==
    CASE v.t = "obj" -> "toString" \in DOMAIN v.o
      [] v.t = "arr" -> \E i \in 1..Len(v.a) : StringThrows(v.a[i])
      [] OTHER -> FALSE

\* signed magnitude ip + fp/10 as a number value (-0 is 0)
Signed(neg, ip, fp) ==
    IF ~neg THEN Dec(ip, fp)
    ELSE IF fp = 0 THEN Dec(-ip, 0) ELSE Dec(-ip - 1, 10 - fp)

\* s without its leading white space
SkipSpaces(s) == DropTo(s, SpacePrefix(s) + 1)
\* s starts with a minus sign
IsNegative(s) == s # <<>> /\ Head(s) = "-"
\* s without its sign
SkipSign(s) == IF s # <<>> /\ Head(s) \in {"-", "+"} THEN Tail(s) ELSE s
\* s starts with a fraction: a point and at least one digit
HasFraction(s) == s # <<>> /\ Head(s) = "." /\ DigitPrefix(Tail(s)) > 0
\* the first digit of the fraction s starts with, 0 without a fraction
FractionDigit(s) == IF HasFraction(s) THEN DigitVal(s[2]) ELSE 0

\* the decimal literal at the start of the unsigned text s, whose first k
\* characters are its digits before the point
DecimalLiteral(neg, s, k) ==
    IF k = 0 /\ ~HasFraction(s) THEN NaN
    ELSE Signed(neg, DigitsVal(SubSeq(s, 1, k)), FractionDigit(DropTo(s, k + 1)))
\* the integer literal at the start of the unsigned text s
IntegerLiteral(neg, s, k) ==
    IF k = 0 THEN NaN ELSE Signed(neg, DigitsVal(SubSeq(s, 1, k)), 0)

ParseFloatText(s) == DecimalLiteral(IsNegative(s), SkipSign(s), DigitPrefix(SkipSign(s)))
ParseIntText(s) == IntegerLiteral(IsNegative(s), SkipSign(s), DigitPrefix(SkipSign(s)))

\* parseFloat(v): optional white space and sign, digits, optional fraction
\* (the first fractional digit is kept)
ParseFloat(v) == IF v.t = "num" THEN v ELSE ParseFloatText(SkipSpaces(StringOf(v)))

\* parseInt(v): optional white space and sign, then decimal digits
ParseInt(v) == ParseIntText(SkipSpaces(StringOf(v)))

\* a < b on numbers
NumLt(a, b) == a.n < b.n \/ (a.n = b.n /\ a.f < b.f)
\* Math.min / Math.max on numbers
MathMin(a, b) == IF NumLt(b, a) THEN b ELSE a
MathMax(a, b) == IF NumLt(a, b) THEN b ELSE a

(***************************************************************************)
(* lib/data-utils.js                                                       *)
(***************************************************************************)
\* Number.MAX_SAFE_INTEGER, held at the widest integer the checker has
MAX_SAFE_INTEGER == 2147483647
MAX_PAYMENT == 1000000000

\* str.replace(/<[^>]*>/g, ''): each '<' up to the next '>' is removed
RECURSIVE IndexOfGt(_)
IndexOfGt(s) ==
    IF s = <<>> THEN 0
    ELSE IF Head(s) = ">" THEN 1
    ELSE LET r == IndexOfGt(Tail(s)) IN IF r = 0 THEN 0 ELSE r + 1
RECURSIVE StripTags(_)
StripTags(s) ==
    IF s = <<>> THEN <<>>
    ELSE IF Head(s) = "<" /\ IndexOfGt(s) # 0
         THEN StripTags(DropTo(s, IndexOfGt(s) + 1))
         ELSE <<Head(s)>> \o StripTags(Tail(s))

\* s.slice(0, n)
Slice(s, n) == SubSeq(s, 1, IF Len(s) < n THEN Len(s) ELSE n)

\* a sanitizeString that leaves the tags in
sanitizeStringKeepingTags(value, maxLength) ==
    IF ~Truthy(value) THEN Str(<<>>)
    ELSE Str(Slice(Trim(StringOf(value)), maxLength))

sanitizeString(value, maxLength) ==
    IF ~Truthy(value) THEN Str(<<>>)
    ELSE Str(Slice(StripTags(Trim(StringOf(value))), maxLength))

\* Math.max(min, Math.min(max, num)), min for NaN
Clamp(num, min, max) ==
    IF num.t = "nan" THEN Num(min)
    ELSE MathMax(Num(min), MathMin(Num(max), num))

sanitizeNumber(value, min, max) == Clamp(ParseFloat(value), min, max)

\* the calls that end in the TypeError of String(value) or parseFloat(value)
sanitizeStringThrows(value) == Truthy(value) /\ StringThrows(value)
sanitizeNumberThrows(value) == StringThrows(value)

\* a || b
OrElse(a, b) == IF Truthy(a) THEN a ELSE b

\* null stands for "no record"
normalizeAccount(account) ==
    IF ~Truthy(account) \/ ~IsObjectType(account) THEN Null
    ELSE Obj([
        id |-> sanitizeNumber(Get(account, "id"), 0, MAX_SAFE_INTEGER),
        name |-> sanitizeString(Get(account, "name"), 100),
        category |-> sanitizeString(Get(account, "category"), 100),
        type |-> OrElse(sanitizeString(Get(account, "type"), 20), Chars(<<"e", "x", "p", "e", "n", "s", "e">>)),
        monthlyPayment |-> sanitizeNumber(Get(account, "monthlyPayment"), 0, MAX_PAYMENT),
        annualPayment |-> sanitizeNumber(Get(account, "annualPayment"), 0, MAX_PAYMENT),
        hasReminder |-> OrElse(sanitizeString(Get(account, "hasReminder"), 10), Chars(<<"N", "o">>)),
        status |-> OrElse(sanitizeString(Get(account, "status"), 30), Chars(<<"A", "c", "t", "i", "v", "e">>)),
        priority |-> OrElse(sanitizeString(Get(account, "priority"), 30),
                            Chars(<<"I", "m", "p", "o", "r", "t", "a", "n", "t">>)),
        ownerId |-> IF Truthy(Get(account, "ownerId"))
                    THEN sanitizeString(Get(account, "ownerId"), 100) ELSE Null])

normalizeAccountThrows(account) ==
    /\ Truthy(account) /\ IsObjectType(account)
    /\ \/ \E k \in {"id", "monthlyPayment", "annualPayment"} :
              sanitizeNumberThrows(Get(account, k))
       \/ \E k \in {"name", "category", "type", "hasReminder", "status",
                     "priority", "ownerId"} :
              sanitizeStringThrows(Get(account, k))

\* arr.map(normalizeAccount) throws
NormalizeAccountsThrows(a) == \E i \in 1..Len(a) : normalizeAccountThrows(a[i])

\* [h].filter(Boolean)
KeepTruthy(h) == IF Truthy(h) THEN <<h>> ELSE <<>>

\* arr.map(normalizeAccount).filter(Boolean)
RECURSIVE NormalizeAccounts(_)
NormalizeAccounts(a) ==
    IF a = <<>> THEN <<>>
    ELSE KeepTruthy(normalizeAccount(Head(a))) \o NormalizeAccounts(Tail(a))

normalizeData(input) ==
    LET data == IF Truthy(input) /\ IsObjectType(input) THEN input ELSE EmptyObj
        ObjOr(k) == IF Truthy(Get(data, k)) /\ IsObjectType(Get(data, k))
                    THEN Get(data, k) ELSE EmptyObj
    IN  Obj([
        accounts |-> IF Get(data, "accounts").t = "arr"
                     THEN Arr(NormalizeAccounts(Get(data, "accounts").a))
                     ELSE EmptyArr,
        profile |-> ObjOr("profile"),
        timeline |-> ObjOr("timeline"),
        goals |-> IF Get(data, "goals").t = "arr" THEN Get(data, "goals") ELSE EmptyArr,
        settings |-> ObjOr("settings")])

normalizeDataThrows(input) ==
    /\ Truthy(input) /\ IsObjectType(input)
    /\ Get(input, "accounts").t = "arr"
    /\ NormalizeAccountsThrows(Get(input, "accounts").a)

(***************************************************************************)
(* JSON text.  A file holds a complete JSON text, nothing (a file that was *)
(* truncated and not yet written), bytes that do not parse, or is absent.  *)
(***************************************************************************)
RECURSIVE JsonValue(_)
\* the value JSON.stringify writes for v: NaN becomes null, an undefined
\* property is left out, an undefined array element becomes null
JsonValue(v) ==
    CASE v.t \in {"nan", "undefined"} -> Null
      [] v.t = "arr" -> Arr([i \in 1..Len(v.a) |-> JsonValue(v.a[i])])
      [] v.t = "obj" ->
            Obj([k \in {j \in DOMAIN v.o : v.o[j].t # "undefined"} |->
                    JsonValue(v.o[k])])
      [] OTHER -> v

Absent == [kind |-> "absent"]
EmptyFile == [kind |-> "empty"]
Garbage == [kind |-> "garbage"]
\* JSON.stringify(v, null, 2)
JsonStringify(v) == [kind |-> "json", val |-> JsonValue(v)]
\* JSON.parse succeeds on exactly the complete JSON texts
Parses(c) == c.kind = "json"
JsonParse(c) == c.val

(***************************************************************************)
(* Bounds of the model.                                                    *)
(***************************************************************************)
\* the clock stops here
MaxTime == 16000
\* the longest step of the clock, in ms
TickMs == 5000
\* writes waiting in the promise chain
MaxQueue == 2
\* process launches that follow the initial state
MaxLaunches == 2

(***************************************************************************)
(* State of server.js                                                      *)
(***************************************************************************)
VARIABLES
    file,                   \* bytes of DATA_FILE
    backup,                 \* bytes of BACKUP_FILE
    safety,                 \* bytes of IMPORT_SAFETY_FILE
    phase,                  \* "running" or "exited"
    IS_CI,                  \* process.env.CI === 'true'
    writeQueue,             \* the promise chain: the state of the last settled
                            \* promise and the writes still pending behind it
    shutdownTimer,          \* handle of the last timer set (0: undefined)
    timers,                 \* timers of the event loop that are still pending
    SHUTDOWN_TIMEOUT,
    AUTO_SHUTDOWN_ENABLED,
    now,                    \* ms since the launch of the process
    resp,                   \* the response sent last
    launches,               \* launches that followed the initial state
    lastSignal,             \* history: time of launch or of the last heartbeat
                            \* or settings request
    expected,               \* history: the document that the accepted saves
                            \* and imports give when applied one after another
    clean,                  \* history: no write failed, no backup was restored
                            \* and the process never exited
    call                    \* the call of a function of lib/data-utils.js made
                            \* from outside the server (tests/data-utils.test.js):
                            \* its arguments and, once it has run, its outcome

diskVars == <<file, backup, safety>>
timerVars == <<shutdownTimer, timers, SHUTDOWN_TIMEOUT, AUTO_SHUTDOWN_ENABLED, lastSignal>>
vars == <<file, backup, safety, phase, IS_CI, writeQueue, shutdownTimer, timers,
          SHUTDOWN_TIMEOUT, AUTO_SHUTDOWN_ENABLED, now, resp, launches,
          lastSignal, expected, clean, call>>

\* no call of the library from outside the server
NoCall == [fn |-> "none"]

(***************************************************************************)
(* Auto-shutdown                                                           *)
(***************************************************************************)
\* default of SHUTDOWN_TIMEOUT, ms
DEFAULT_TIMEOUT == 10000
\* largest delay setTimeout takes; any other delay becomes 1 ms
TIMEOUT_MAX == 2147483647

\* the delay setTimeout(fn, v) runs with
TimerDelay(v) ==
    IF v.t = "num" /\ v.n >= 1 /\ v.n <= TIMEOUT_MAX THEN v.n ELSE 1

\* a handle that no pending timer has
FreshTimer(tm) == CHOOSE i \in 1..(Cardinality(tm) + 1) : \A t \in tm : t.id # i

\* clearTimeout(h)
ClearTimeout(tm, h) == {t \in tm : t.id # h}

\* resetShutdownTimer that leaves the previous timer running
resetWithoutClear(h, tm, enabled, ci, timeout, t0) ==
    IF ~Truthy(enabled) \/ ci
    THEN [handle |-> h, timers |-> tm]
    ELSE [handle |-> FreshTimer(tm),
          timers |-> tm \cup {[id |-> FreshTimer(tm),
                               due |-> t0 + TimerDelay(timeout)]}]

\* resetShutdownTimer as it was before the CI check was added to it
resetIgnoringCI(h, tm, enabled, ci, timeout, t0) ==
    LET cleared == IF h # 0 THEN ClearTimeout(tm, h) ELSE tm
    IN  IF ~Truthy(enabled)
        THEN [handle |-> h, timers |-> cleared]
        ELSE [handle |-> FreshTimer(cleared),
              timers |-> cleared \cup {[id |-> FreshTimer(cleared),
                                        due |-> t0 + TimerDelay(timeout)]}]

\* resetShutdownTimer(): the handle and the pending timers it leaves
resetShutdownTimer(h, tm, enabled, ci, timeout, t0) ==
    LET cleared == IF h # 0 THEN ClearTimeout(tm, h) ELSE tm
    IN  IF ~Truthy(enabled) \/ ci
        THEN [handle |-> h, timers |-> cleared]
        ELSE [handle |-> FreshTimer(cleared),
              timers |-> cleared \cup {[id |-> FreshTimer(cleared),
                                        due |-> t0 + TimerDelay(timeout)]}]

\* parseInt(timeout) * 1000
TimeoutMs(timeout) ==
    LET p == ParseInt(timeout) IN IF p.t = "nan" THEN NaN ELSE Num(p.n * 1000)
\* SHUTDOWN_TIMEOUT / 1000 (SHUTDOWN_TIMEOUT is a multiple of 1000 or NaN)
TimeoutSeconds(ms) == IF ms.t = "nan" THEN NaN ELSE Num(ms.n \div 1000)

\* res.status(code).json(body)
Response(op, code, body) == [op |-> op, status |-> code, body |-> JsonValue(body)]

\* app.post('/api/heartbeat')
Heartbeat ==
    /\ phase = "running"
    /\ LET r == resetShutdownTimer(shutdownTimer, timers, AUTO_SHUTDOWN_ENABLED,
                                   IS_CI, SHUTDOWN_TIMEOUT, now)
       IN  /\ shutdownTimer' = r.handle
           /\ timers' = r.timers
    /\ resp' = Response("heartbeat", 200,
                        Obj([status |-> Str(<<"a", "l", "i", "v", "e">>)]))
    /\ lastSignal' = now
    /\ UNCHANGED <<diskVars, phase, IS_CI, writeQueue, SHUTDOWN_TIMEOUT,
                   AUTO_SHUTDOWN_ENABLED, now, launches, call, expected, clean>>

\* a settings handler that stores the new values and does not re-arm
UpdateSettingsWithoutReset(timeout, enabled) ==
    /\ phase = "running"
    /\ SHUTDOWN_TIMEOUT' =
          IF timeout.t # "undefined" THEN TimeoutMs(timeout) ELSE SHUTDOWN_TIMEOUT
    /\ AUTO_SHUTDOWN_ENABLED' =
          IF enabled.t # "undefined" THEN enabled ELSE AUTO_SHUTDOWN_ENABLED
    /\ resp' = Response("settings", 200,
                        Obj([success |-> Bool(TRUE),
                             timeout |-> TimeoutSeconds(SHUTDOWN_TIMEOUT'),
                             enabled |-> AUTO_SHUTDOWN_ENABLED']))
    /\ lastSignal' = now
    /\ UNCHANGED <<diskVars, phase, IS_CI, writeQueue, shutdownTimer, timers, now,
                   launches, call, expected, clean>>

\* a settings handler that re-arms before it stores the new values
UpdateSettingsResetFirst(timeout, enabled) ==
    /\ phase = "running"
    /\ LET r == resetShutdownTimer(shutdownTimer, timers, AUTO_SHUTDOWN_ENABLED,
                                   IS_CI, SHUTDOWN_TIMEOUT, now)
       IN  /\ shutdownTimer' = r.handle
           /\ timers' = r.timers
    /\ SHUTDOWN_TIMEOUT' =
          IF timeout.t # "undefined" THEN TimeoutMs(timeout) ELSE SHUTDOWN_TIMEOUT
    /\ AUTO_SHUTDOWN_ENABLED' =
          IF enabled.t # "undefined" THEN enabled ELSE AUTO_SHUTDOWN_ENABLED
    /\ resp' = Response("settings", 200,
                        Obj([success |-> Bool(TRUE),
                             timeout |-> TimeoutSeconds(SHUTDOWN_TIMEOUT'),
                             enabled |-> AUTO_SHUTDOWN_ENABLED']))
    /\ lastSignal' = now
    /\ UNCHANGED <<diskVars, phase, IS_CI, writeQueue, now, launches, call, expected, clean>>

\* app.post('/api/settings/system') with body {timeout, enabled}
UpdateSettings(timeout, enabled) ==
    /\ phase = "running"
    /\ SHUTDOWN_TIMEOUT' =
          IF timeout.t # "undefined" THEN TimeoutMs(timeout) ELSE SHUTDOWN_TIMEOUT
    /\ AUTO_SHUTDOWN_ENABLED' =
          IF enabled.t # "undefined" THEN enabled ELSE AUTO_SHUTDOWN_ENABLED
    /\ LET r == resetShutdownTimer(shutdownTimer, timers, AUTO_SHUTDOWN_ENABLED',
                                   IS_CI, SHUTDOWN_TIMEOUT', now)
       IN  /\ shutdownTimer' = r.handle
           /\ timers' = r.timers
    /\ resp' = Response("settings", 200,
                        Obj([success |-> Bool(TRUE),
                             timeout |-> TimeoutSeconds(SHUTDOWN_TIMEOUT'),
                             enabled |-> AUTO_SHUTDOWN_ENABLED']))
    /\ lastSignal' = now
    /\ UNCHANGED <<diskVars, phase, IS_CI, writeQueue, now, launches, call, expected, clean>>

\* a tab-closed handler that restarts the countdown as a heartbeat does
TabClosedRestarts ==
    /\ phase = "running"
    /\ LET r == resetShutdownTimer(shutdownTimer, timers, AUTO_SHUTDOWN_ENABLED,
                                   IS_CI, SHUTDOWN_TIMEOUT, now)
       IN  /\ shutdownTimer' = r.handle
           /\ timers' = r.timers
    /\ resp' = Response("tab-closed", 200, Obj([acknowledged |-> Bool(TRUE)]))
    /\ UNCHANGED <<diskVars, phase, IS_CI, writeQueue, SHUTDOWN_TIMEOUT,
                   AUTO_SHUTDOWN_ENABLED, lastSignal, now, launches, call, expected, clean>>

\* app.post('/api/tab-closed')
TabClosed ==
    /\ phase = "running"
    /\ resp' = Response("tab-closed", 200, Obj([acknowledged |-> Bool(TRUE)]))
    /\ UNCHANGED <<diskVars, phase, IS_CI, writeQueue, timerVars, now, launches, call,
                   expected, clean>>

\* the callback of the shutdown timer: process.exit(0).  The process ends
\* at once; writes still pending in the chain are abandoned where they are.
Expire ==
    /\ phase = "running"
    /\ \E t \in timers : t.due <= now
    /\ phase' = "exited"
    /\ timers' = {}
    /\ clean' = FALSE
    /\ UNCHANGED <<diskVars, IS_CI, writeQueue, shutdownTimer, SHUTDOWN_TIMEOUT,
                   AUTO_SHUTDOWN_ENABLED, now, resp, launches, call, lastSignal, expected>>

SetMin(S) == CHOOSE x \in S : \A y \in S : x <= y

\* time passes, up to the next timer that is due
Tick ==
    /\ phase = "running"
    /\ now < MaxTime
    /\ \A t \in timers : t.due > now
    /\ now' = SetMin({now + TickMs, MaxTime} \cup {t.due : t \in timers})
    /\ UNCHANGED <<diskVars, phase, IS_CI, writeQueue, timerVars, resp, launches, call,
                   expected, clean>>


(***************************************************************************)
(* The write queue                                                         *)
(***************************************************************************)
\* a text that is never taken apart
Text(s) == Str(<<s>>)

\* queueWrite(data) called for the request op: the payload is serialized
\* at once and the write is chained behind the last promise
queueWrite(q, data, op) ==
    [q EXCEPT !.chain = Append(@, [payload |-> JsonStringify(data),
                                   op |-> op, stage |-> "waiting"])]

\* the response a handler sends once its awaited write has settled
Settled(op, ok) ==
    IF ~ok
    THEN Response(op, 500,
            Obj([error |-> IF op = "save" THEN Text("Failed to save data")
                           ELSE Text("Failed to import data")]))
    ELSE IF op = "save" THEN Response(op, 200, Obj([success |-> Bool(TRUE)]))
    ELSE Response(op, 200,
            Obj([message |-> Text("Database restored successfully (Safety backup created)")]))

\* fs.promises.writeFile, first step: the file is opened with flag 'w',
\* which truncates it
WriteOpen ==
    /\ phase = "running"
    /\ writeQueue.chain # <<>>
    /\ writeQueue.base = "fulfilled"
    /\ Head(writeQueue.chain).stage = "waiting"
    /\ file' = EmptyFile
    /\ writeQueue' = [writeQueue EXCEPT !.chain[1].stage = "open"]
    /\ UNCHANGED <<backup, safety, phase, IS_CI, timerVars, now, resp, launches, call,
                   expected, clean>>

\* what a write of payload from offset 0 leaves in a file holding cur: the
\* payload, followed by the rest of cur where cur is longer
Overwrite(cur, payload) ==
    IF cur.kind \in {"empty", "absent"} THEN {payload} ELSE {payload, Garbage}

\* fs.promises.writeFile, second step: the payload is written, the file is
\* closed, the promise is fulfilled and the handler answers
WriteFinish ==
    /\ phase = "running"
    /\ writeQueue.chain # <<>>
    /\ Head(writeQueue.chain).stage = "open"
    /\ file' \in Overwrite(file, Head(writeQueue.chain).payload)
    /\ writeQueue' = [base |-> "fulfilled", chain |-> Tail(writeQueue.chain)]
    /\ resp' = Settled(Head(writeQueue.chain).op, TRUE)
    /\ UNCHANGED <<backup, safety, phase, IS_CI, timerVars, now, launches, call,
                   expected, clean>>

\* fs.promises.writeFile fails, at the open or at the write: the promise
\* is rejected and the handler answers 500
WriteFail ==
    /\ phase = "running"
    /\ writeQueue.chain # <<>>
    /\ \/ Head(writeQueue.chain).stage = "open"
       \/ Head(writeQueue.chain).stage = "waiting" /\ writeQueue.base = "fulfilled"
    /\ writeQueue' = [base |-> "rejected", chain |-> Tail(writeQueue.chain)]
    /\ resp' = Settled(Head(writeQueue.chain).op, FALSE)
    /\ clean' = FALSE
    /\ UNCHANGED <<diskVars, phase, IS_CI, timerVars, now, launches, call, expected>>

\* writeQueue.then(onFulfilled) behind a rejected promise: onFulfilled is
\* not called, the new promise is rejected with the same reason
WriteSkip ==
    /\ phase = "running"
    /\ writeQueue.chain # <<>>
    /\ writeQueue.base = "rejected"
    /\ Head(writeQueue.chain).stage = "waiting"
    /\ writeQueue' = [base |-> "rejected", chain |-> Tail(writeQueue.chain)]
    /\ resp' = Settled(Head(writeQueue.chain).op, FALSE)
    /\ UNCHANGED <<diskVars, phase, IS_CI, timerVars, now, launches, call, expected, clean>>

(***************************************************************************)
(* Data routes                                                             *)
(***************************************************************************)
ALLOWED_STORES == {"accounts", "profile", "timeline", "goals", "settings"}

\* the try block of the Load handler runs through: the file parses and
\* normalizeData returns
Readable(f) == Parses(f) /\ ~normalizeDataThrows(JsonParse(f))

\* a Load that answers from the backup and leaves the primary as it is
LoadWithoutRepair ==
    /\ phase = "running"
    /\ IF Readable(file)
       THEN /\ resp' = Response("load", 200, normalizeData(JsonParse(file)))
            /\ UNCHANGED <<file, clean>>
       ELSE IF backup # Absent /\ Parses(backup)
       THEN /\ resp' = Response("load", 200, JsonParse(backup))
            /\ clean' = FALSE
            /\ UNCHANGED file
       ELSE /\ resp' = Response("load", 500,
                  Obj([error |-> IF backup # Absent
                          THEN Text("Data corrupted and backup restoration failed")
                          ELSE Text("Data corrupted and no backup available")]))
            /\ UNCHANGED <<file, clean>>
    /\ UNCHANGED <<backup, safety, phase, IS_CI, writeQueue, timerVars, now,
                   launches, call, expected>>

\* a Load that, with no usable backup, starts the primary afresh
LoadStartingAfresh ==
    /\ phase = "running"
    /\ IF Readable(file)
       THEN /\ resp' = Response("load", 200, normalizeData(JsonParse(file)))
            /\ UNCHANGED <<file, clean>>
       ELSE IF backup # Absent /\ Parses(backup)
       THEN /\ file' = backup
            /\ resp' = Response("load", 200, JsonParse(backup))
            /\ clean' = FALSE
       ELSE /\ resp' = Response("load", 500,
                  Obj([error |-> IF backup # Absent
                          THEN Text("Data corrupted and backup restoration failed")
                          ELSE Text("Data corrupted and no backup available")]))
            /\ file' = JsonStringify(EmptyObj)
            /\ clean' = FALSE
    /\ UNCHANGED <<backup, safety, phase, IS_CI, writeQueue, timerVars, now,
                   launches, call, expected>>

\* a Load that answers from the startup backup while there is one
LoadFromBackup ==
    /\ phase = "running"
    /\ IF backup # Absent /\ Parses(backup)
       THEN /\ resp' = Response("load", 200, normalizeData(JsonParse(backup)))
            /\ UNCHANGED <<file, clean>>
       ELSE IF Parses(file)
       THEN /\ resp' = Response("load", 200, normalizeData(JsonParse(file)))
            /\ UNCHANGED <<file, clean>>
       ELSE /\ resp' = Response("load", 500,
                  Obj([error |-> Text("Data corrupted and no backup available")]))
            /\ UNCHANGED <<file, clean>>
    /\ UNCHANGED <<backup, safety, phase, IS_CI, writeQueue, timerVars, now,
                   launches, call, expected>>

\* app.get('/api/data')
Load ==
    /\ phase = "running"
    /\ IF Readable(file)
       THEN /\ resp' = Response("load", 200, normalizeData(JsonParse(file)))
            /\ UNCHANGED <<file, clean>>
       ELSE IF backup # Absent /\ Parses(backup)
       THEN /\ file' = backup
            /\ resp' = Response("load", 200, JsonParse(backup))
            /\ clean' = FALSE
       ELSE /\ resp' = Response("load", 500,
                  Obj([error |-> IF backup # Absent
                          THEN Text("Data corrupted and backup restoration failed")
                          ELSE Text("Data corrupted and no backup available")]))
            /\ UNCHANGED <<file, clean>>
    /\ UNCHANGED <<backup, safety, phase, IS_CI, writeQueue, timerVars, now,
                   launches, call, expected>>

\* a primitive value: a property assigned to it is dropped
IsPrimitive(v) == v.t \in {"num", "nan", "str", "bool"}

\* the save handler throws a TypeError before it reaches queueWrite
SaveThrows(dbData, storeName, key) ==
    \/ dbData.t = "null"
    \/ /\ IsPrimitive(dbData)
       /\ storeName \in {"profile", "timeline"}
       /\ Truthy(key)

\* data.map(normalizeAccount) throws (line 191)
AccountsThrow(storeName, data) ==
    storeName = "accounts" /\ data.t = "arr" /\ NormalizeAccountsThrows(data.a)

\* dbData as the save handler leaves it (lines 183-204)
SaveDoc(dbData, storeName, data, key) ==
    LET d1 == IF ~Truthy(Get(dbData, storeName))
              THEN Put(dbData, storeName,
                       IF storeName = "accounts" THEN EmptyArr ELSE EmptyObj)
              ELSE dbData
    IN  IF storeName = "accounts"
        THEN Put(d1, storeName,
                 IF data.t = "arr" THEN Arr(NormalizeAccounts(data.a)) ELSE EmptyArr)
        ELSE IF storeName \in {"profile", "timeline"} /\ Truthy(key)
        THEN Put(d1, storeName, Put(Get(d1, storeName), key.s[1], data))
        ELSE Put(d1, storeName, data)

\* a save handler that takes any store name that is given
SaveAnyStore(storeName, data, key) ==
    /\ phase = "running"
    /\ IF storeName = ""
       THEN /\ resp' = Response("save", 400, Obj([error |-> Text("storeName is required")]))
            /\ UNCHANGED <<writeQueue, expected>>
       ELSE LET dbData == IF Parses(file) THEN JsonParse(file) ELSE EmptyObj
            IN  IF \/ file = Absent
                   \/ SaveThrows(dbData, storeName, key)
                   \/ AccountsThrow(storeName, data)
                THEN /\ resp' = Settled("save", FALSE)
                     /\ UNCHANGED <<writeQueue, expected>>
                ELSE /\ Len(writeQueue.chain) < MaxQueue
                     /\ writeQueue' = queueWrite(writeQueue,
                                         SaveDoc(dbData, storeName, data, key), "save")
                     /\ expected' = JsonValue(SaveDoc(expected, storeName, data, key))
                     /\ UNCHANGED resp
    /\ UNCHANGED <<diskVars, phase, IS_CI, timerVars, now, launches, call, clean>>

\* app.post('/api/data') with body {storeName, data, key}; storeName ""
\* stands for a missing or empty name
Save(storeName, data, key) ==
    /\ phase = "running"
    /\ IF storeName = ""
       THEN /\ resp' = Response("save", 400, Obj([error |-> Text("storeName is required")]))
            /\ UNCHANGED <<writeQueue, expected>>
       ELSE IF storeName \notin ALLOWED_STORES
       THEN /\ resp' = Response("save", 400, Obj([error |-> Text("Invalid storeName")]))
            /\ UNCHANGED <<writeQueue, expected>>
       ELSE LET dbData == IF Parses(file) THEN JsonParse(file) ELSE EmptyObj
            IN  IF \/ file = Absent
                   \/ SaveThrows(dbData, storeName, key)
                   \/ AccountsThrow(storeName, data)
                THEN /\ resp' = Settled("save", FALSE)
                     /\ UNCHANGED <<writeQueue, expected>>
                ELSE /\ Len(writeQueue.chain) < MaxQueue
                     /\ writeQueue' = queueWrite(writeQueue,
                                         SaveDoc(dbData, storeName, data, key), "save")
                     /\ expected' = JsonValue(SaveDoc(expected, storeName, data, key))
                     /\ UNCHANGED resp
    /\ UNCHANGED <<diskVars, phase, IS_CI, timerVars, now, launches, call, clean>>

\* an import handler that takes its safety copy in BACKUP_FILE
ImportOverBackup(newData) ==
    /\ phase = "running"
    /\ IF ~Truthy(newData) \/ ~IsObjectType(newData)
       THEN /\ resp' = Response("import", 400, Obj([error |-> Text("Invalid JSON data")]))
            /\ UNCHANGED <<backup, writeQueue, expected>>
       ELSE IF normalizeDataThrows(newData)
       THEN /\ backup' = IF file # Absent THEN file ELSE backup
            /\ resp' = Settled("import", FALSE)
            /\ UNCHANGED <<writeQueue, expected>>
       ELSE /\ Len(writeQueue.chain) < MaxQueue
            /\ backup' = IF file # Absent THEN file ELSE backup
            /\ writeQueue' = queueWrite(writeQueue, normalizeData(newData), "import")
            /\ expected' = JsonValue(normalizeData(newData))
            /\ UNCHANGED resp
    /\ UNCHANGED <<file, safety, phase, IS_CI, timerVars, now, launches, call, clean>>

\* an import handler that persists the body as it came
ImportRaw(newData) ==
    /\ phase = "running"
    /\ IF ~Truthy(newData) \/ ~IsObjectType(newData)
       THEN /\ resp' = Response("import", 400, Obj([error |-> Text("Invalid JSON data")]))
            /\ UNCHANGED <<safety, writeQueue, expected>>
       ELSE /\ Len(writeQueue.chain) < MaxQueue
            /\ safety' = IF file # Absent THEN file ELSE safety
            /\ writeQueue' = queueWrite(writeQueue, newData, "import")
            /\ expected' = JsonValue(normalizeData(newData))
            /\ UNCHANGED resp
    /\ UNCHANGED <<file, backup, phase, IS_CI, timerVars, now, launches, call, clean>>

\* app.post('/api/import') with the request body newData
Import(newData) ==
    /\ phase = "running"
    /\ IF ~Truthy(newData) \/ ~IsObjectType(newData)
       THEN /\ resp' = Response("import", 400, Obj([error |-> Text("Invalid JSON data")]))
            /\ UNCHANGED <<safety, writeQueue, expected>>
       ELSE IF normalizeDataThrows(newData)
       THEN /\ safety' = IF file # Absent THEN file ELSE safety
            /\ resp' = Settled("import", FALSE)
            /\ UNCHANGED <<writeQueue, expected>>
       ELSE /\ Len(writeQueue.chain) < MaxQueue
            /\ safety' = IF file # Absent THEN file ELSE safety
            /\ writeQueue' = queueWrite(writeQueue, normalizeData(newData), "import")
            /\ expected' = JsonValue(normalizeData(newData))
            /\ UNCHANGED resp
    /\ UNCHANGED <<file, backup, phase, IS_CI, timerVars, now, launches, call, clean>>


(***************************************************************************)
(* Calls of lib/data-utils.js from outside the server                      *)
(***************************************************************************)
Pending(c) == [fn |-> c.fn, args |-> c.args, state |-> "pending", result |-> Undefined]
Returned(c, v) == [c EXCEPT !.state = "returned", !.result = v]
Thrown(c) == [c EXCEPT !.state = "thrown"]

\* sanitizeNumber(value, min, max) runs
CallSanitizeNumber ==
    /\ call.fn = "sanitizeNumber" /\ call.state = "pending"
    /\ call' = IF sanitizeNumberThrows(call.args[1]) THEN Thrown(call)
               ELSE Returned(call, sanitizeNumber(call.args[1], call.args[2], call.args[3]))
    /\ UNCHANGED <<diskVars, phase, IS_CI, writeQueue, timerVars, now, resp,
                   launches, expected, clean>>

\* sanitizeString(value, maxLength) runs
CallSanitizeString ==
    /\ call.fn = "sanitizeString" /\ call.state = "pending"
    /\ call' = IF sanitizeStringThrows(call.args[1]) THEN Thrown(call)
               ELSE Returned(call, sanitizeString(call.args[1], call.args[2]))
    /\ UNCHANGED <<diskVars, phase, IS_CI, writeQueue, timerVars, now, resp,
                   launches, expected, clean>>

\* normalizeAccount(account) runs
CallNormalizeAccount ==
    /\ call.fn = "normalizeAccount" /\ call.state = "pending"
    /\ call' = IF normalizeAccountThrows(call.args[1]) THEN Thrown(call)
               ELSE Returned(call, normalizeAccount(call.args[1]))
    /\ UNCHANGED <<diskVars, phase, IS_CI, writeQueue, timerVars, now, resp,
                   launches, expected, clean>>

(***************************************************************************)
(* Launch: the top-level code of server.js                                 *)
(***************************************************************************)
\* lines 100-106
initialData ==
    Obj([accounts |-> EmptyArr, profile |-> EmptyObj, timeline |-> EmptyObj,
         goals |-> EmptyArr, settings |-> EmptyObj])

\* an initialization that also replaces a file that does not parse
EnsureInitializedValid(f) ==
    IF f = Absent \/ ~Parses(f) THEN JsonStringify(initialData) ELSE f

\* DATA_FILE after "Initialize data.json if it doesn't exist"
EnsureInitialized(f) == IF f = Absent THEN JsonStringify(initialData) ELSE f

NoResponse == [op |-> "none", status |-> 0, body |-> Null]
EmptyQueue == [base |-> "fulfilled", chain |-> <<>>]

\* a launch that waits for the first heartbeat before it arms the timer
StartTimerNever(ci) == [handle |-> 0, timers |-> {}]

\* "Start the timer immediately (unless in CI)": the handle and the
\* pending timers at launch
StartTimer(ci) ==
    IF ci THEN [handle |-> 0, timers |-> {}]
    ELSE resetShutdownTimer(0, {}, Bool(TRUE), ci, Num(DEFAULT_TIMEOUT), 0)

\* the state of the process once the top-level code has run on a disk
\* whose DATA_FILE holds f
Started(f, ci) ==
    /\ file' = EnsureInitialized(f)
    /\ backup' = EnsureInitialized(f)
    /\ phase' = "running"
    /\ IS_CI' = ci
    /\ writeQueue' = EmptyQueue
    /\ SHUTDOWN_TIMEOUT' = Num(DEFAULT_TIMEOUT)
    /\ AUTO_SHUTDOWN_ENABLED' = Bool(TRUE)
    /\ shutdownTimer' = StartTimer(ci).handle
    /\ timers' = StartTimer(ci).timers
    /\ now' = 0
    /\ resp' = NoResponse
    /\ lastSignal' = 0
    /\ expected' = IF Parses(EnsureInitialized(f)) THEN JsonParse(EnsureInitialized(f))
                   ELSE EmptyObj
    /\ clean' = Parses(EnsureInitialized(f))

\* the process is started again after it has exited
Launch ==
    /\ phase = "exited"
    /\ launches < MaxLaunches
    /\ launches' = launches + 1
    /\ Started(file, IS_CI)
    /\ UNCHANGED <<safety, call>>

(***************************************************************************)
(* Requests of the model                                                   *)
(***************************************************************************)
Goals1 == Arr(<<Obj([id |-> Text("g1"), target |-> Num(100)])>>)
Settings1 == Obj([appSettings |-> Obj([heartbeatTimeout |-> Num(10)])])
Cards1 == Arr(<<Obj([id |-> Text("card_1")])>>)
RawAccounts1 ==
    Arr(<<Obj([name |-> Str(<<"<", "b", ">", "R", "e", "n", "t", "<", "/", "b", ">">>),
               monthlyPayment |-> Str(<<"1", "2", "0", "0", ".", "5">>),
               annualPayment |-> Str(<<"0">>)]),
          Num(7)>>)
Document1 == Obj([accounts |-> EmptyArr, profile |-> Obj([cards |-> Cards1]),
                  timeline |-> EmptyObj, goals |-> EmptyArr, settings |-> EmptyObj])

\* DATA_FILE as a launch may find it
InitialFiles == {Absent, Garbage, JsonStringify(Document1)}

\* bodies of POST /api/data: <<storeName, data, key>>
SaveRequests ==
    {<<"goals", Goals1, Undefined>>, <<"settings", Settings1, Undefined>>,
     <<"bogus", Goals1, Undefined>>}
\* bodies of POST /api/import
ImportRequests == {Obj([goals |-> Goals1]), Null}
\* bodies of POST /api/settings/system: <<timeout, enabled>>
SettingsRequests ==
    {<<Undefined, Bool(FALSE)>>, <<Undefined, Bool(TRUE)>>,
     <<Num(5), Undefined>>, <<Num(15), Bool(TRUE)>>}
\* a data.json written by hand or by an earlier version: one store only
Partial1 == Obj([profile |-> Obj([cards |-> Cards1])])
RecoverFiles == {Absent, Garbage, JsonStringify(Partial1)}
\* an import whose account needs more than one pass to settle: the tag
\* goes in the first, the blank it leaves in the second
RawDocument1 ==
    Obj([accounts |-> Arr(<<Obj([name |-> Str(<<"<", "b", ">", " ", "R">>),
                                 type |-> Str(<<"<", "i", ">">>),
                                 ownerId |-> Str(<<"<", "u", ">">>)]),
                            Num(7)>>),
         goals |-> Goals1])
ImportBodies == {RawDocument1, normalizeData(RawDocument1), Null, Text("x")}
\* saves of the keyed stores, whole and under a key, and of names that
\* are not stores
Income1 == Obj([salary |-> Num(3000)])
Profile1 == Obj([income |-> Income1])
KeyedRequests ==
    {<<"", Goals1, Undefined>>, <<"bogus", Goals1, Undefined>>,
     <<"profile", Cards1, Text("cards")>>, <<"profile", Income1, Text("income")>>,
     <<"profile", Profile1, Undefined>>, <<"profile", Text("none"), Undefined>>}
\* an object that String() cannot convert
Unprintable == Obj([toString |-> Num(1)])
\* arguments of the calls of the library
NumberInputs ==
    {Str(<<"a", "b", "c">>), Str(<<"1", "5">>), Str(<<"5">>),
     Str(<<"5", ".", "5">>), Str(<<"-", "3">>), Str(<<" ", "7">>),
     Str(<<"1", "2", "a", "b", "c">>), Str(<<>>), Num(15), Num(-2),
     Dec(5, 5), Num(2000000000), Undefined, Null, Bool(TRUE), EmptyObj,
     Arr(<<Num(3)>>), Unprintable}
NumberRanges == {<<0, 10>>, <<0, MAX_PAYMENT>>, <<0, MAX_SAFE_INTEGER>>}
StringInputs ==
    {Str(<<" ", " ", "<", "b", ">", "H", "e", "l", "l", "o", "<", "/", "b", ">", " ", " ">>),
     Str(<<"<", "b", ">", " ", "R", "e", "n", "t">>),
     Str(<<"R", "e", "n", "t", " ", "<", "i", ">">>), Str(<<"a", "<", "b">>),
     Str(<<"x", " ", ">", " ", "y">>), Str(<<"<", "<", "b", ">", "b", ">">>),
     Str(<<"a", "b", " ", "c", "d">>), Str(<<>>), Str(<<" ", " ", " ">>),
     Num(0), Num(12), Undefined, Null, Bool(FALSE), Bool(TRUE), EmptyObj,
     Arr(<<Str(<<"a">>), Null>>), Unprintable}
StringLengths == {3, 10, 100}
\* the account of tests/data-utils.test.js
TestAccount ==
    Obj([id |-> Str(<<"5">>), name |-> Str(<<"<", "s", "c", "r", "i", "p", "t", ">", "b", "a", "d", "<", "/", "s", "c", "r", "i", "p", "t", ">", "R", "e", "n", "t">>),
         category |-> Str(<<"H", "o", "u", "s", "i", "n", "g">>), type |-> Str(<<"e", "x", "p", "e", "n", "s", "e">>),
         monthlyPayment |-> Str(<<"1", "2", "0", "0">>), annualPayment |-> Str(<<"0">>),
         hasReminder |-> Str(<<"Y", "e", "s">>), status |-> Str(<<"A", "c", "t", "i", "v", "e">>),
         priority |-> Str(<<"C", "r", "i", "t", "i", "c", "a", "l">>), ownerId |-> Str(<<"c", "a", "r", "d", "_", "1">>)])
AccountInputs ==
    {Null, Undefined, Num(7), Str(<<"r", "e", "n", "t">>), Bool(TRUE), EmptyObj, EmptyArr, TestAccount,
     Obj([name |-> Str(<<"<", "b", ">", "R", "e", "n", "t", "<", "/", "b", ">">>),
          monthlyPayment |-> Str(<<"1", "2", "0", "0", ".", "5">>), annualPayment |-> Str(<<"0">>)]),
     Obj([id |-> Str(<<"5", ".", "5">>), name |-> Str(<<"<", "b", ">", " ", "R", "e", "n", "t">>)]),
     Obj([id |-> Num(-4), type |-> Str(<<"a", "-", "t", "y", "p", "e", "-", "l", "o", "n", "g", "e", "r", "-", "t", "h", "a", "n", "-", "t", "w", "e", "n", "t", "y">>)]),
     Obj([name |-> Unprintable]),
     Obj([monthlyPayment |-> Unprintable])}
Calls ==
    {[fn |-> "sanitizeNumber", args |-> <<v, r[1], r[2]>>] :
        v \in NumberInputs, r \in NumberRanges}
    \cup {[fn |-> "sanitizeString", args |-> <<v, n>>] :
        v \in StringInputs, n \in StringLengths}
    \cup {[fn |-> "normalizeAccount", args |-> <<v>>] : v \in AccountInputs}

\* the requests of the specification that runs every route at once
CoreSaveRequests == {<<"goals", Goals1, Undefined>>}
CoreImportRequests == {Obj([goals |-> Goals1])}
CoreSettingsRequests == {<<Num(5), Undefined>>, <<Undefined, Bool(FALSE)>>}

\* lists of raw accounts as a client may send them: none carries an id
RawAccounts2 ==
    Arr(<<Obj([name |-> Str(<<"<", "b", ">", "R", "e", "n", "t", "<", "/", "b", ">">>),
               monthlyPayment |-> Str(<<"1", "2", "0", "0", ".", "5">>),
               annualPayment |-> Str(<<"0">>)]),
          Obj([name |-> Str(<<"<", "i", ">", "C", "a", "r", "<", "/", "i", ">">>),
               monthlyPayment |-> Num(300)])>>)
\* a list with elements that are no objects, and one with an element that
\* has a field String() cannot convert
RawAccounts3 ==
    Arr(<<Null, Obj([name |-> Str(<<"G", "y", "m">>)]), Str(<<"x">>),
          Obj([name |-> Str(<<"T", "a", "x">>)])>>)
RawAccounts4 ==
    Arr(<<Obj([name |-> Str(<<"R", "e", "n", "t">>)]), Obj([name |-> Unprintable])>>)
AccountLists == <<RawAccounts1, RawAccounts2, RawAccounts3, RawAccounts4>>
AccountRequests == {<<"accounts", AccountLists[i], Undefined>> : i \in 1..4}

\* the state once the top-level code has run over a disk whose DATA_FILE
\* held f, with b in BACKUP_FILE after the startup backup
InitDisk(f, b, ci) ==
    /\ file = EnsureInitialized(f)
    /\ backup = b
    /\ safety = Absent
    /\ phase = "running"
    /\ IS_CI = ci
    /\ writeQueue = EmptyQueue
    /\ SHUTDOWN_TIMEOUT = Num(DEFAULT_TIMEOUT)
    /\ AUTO_SHUTDOWN_ENABLED = Bool(TRUE)
    /\ shutdownTimer = StartTimer(ci).handle
    /\ timers = StartTimer(ci).timers
    /\ now = 0
    /\ resp = NoResponse
    /\ launches = 0
    /\ call = NoCall
    /\ lastSignal = 0
    /\ expected = IF Parses(EnsureInitialized(f)) THEN JsonParse(EnsureInitialized(f))
                  ELSE EmptyObj
    /\ clean = Parses(EnsureInitialized(f))

Init ==
    \E f \in InitialFiles, ci \in BOOLEAN : InitDisk(f, EnsureInitialized(f), ci)

Next ==
    \/ Load
    \/ \E r \in CoreSaveRequests : Save(r[1], r[2], r[3])
    \/ \E b \in CoreImportRequests : Import(b)
    \/ WriteOpen
    \/ WriteFinish
    \/ WriteFail
    \/ WriteSkip
    \/ Heartbeat
    \/ \E r \in CoreSettingsRequests : UpdateSettings(r[1], r[2])
    \/ TabClosed
    \/ Tick
    \/ Expire
    \/ Launch

Spec == Init /\ [][Next]_vars

\* the data routes and the write queue alone, in a process that the
\* auto-shutdown never ends (CI)
InitStore == Init /\ IS_CI

NextStore ==
    \/ Load
    \/ \E r \in SaveRequests : Save(r[1], r[2], r[3])
    \/ \E b \in ImportRequests : Import(b)
    \/ WriteOpen
    \/ WriteFinish
    \/ WriteFail
    \/ WriteSkip

SpecStore == InitStore /\ [][NextStore]_vars

\* the auto-shutdown alone, over a data file that is never requested
InitLife == Init /\ file = JsonStringify(initialData)

NextLife ==
    \/ Heartbeat
    \/ \E r \in SettingsRequests : UpdateSettings(r[1], r[2])
    \/ TabClosed
    \/ Tick
    \/ Expire
    \/ Launch

SpecLife == InitLife /\ [][NextLife]_vars

\* saves alone, each followed by its write, none of which fails
InitSaves == Init /\ IS_CI /\ clean

NextSaves ==
    \/ \E r \in SaveRequests : Save(r[1], r[2], r[3])
    \/ WriteOpen
    \/ WriteFinish

SpecSaves == InitSaves /\ [][NextSaves]_vars

\* a save and its write while the shutdown timer runs
InitExit == Init /\ ~IS_CI /\ clean

NextExit ==
    \/ \E r \in CoreSaveRequests : Save(r[1], r[2], r[3])
    \/ WriteOpen
    \/ WriteFinish
    \/ Heartbeat
    \/ Tick
    \/ Expire

SpecExit == InitExit /\ [][NextExit]_vars

\* Load over the disks a launch may leave: the startup backup is the copy
\* of DATA_FILE, or is missing where the copy failed (lines 111-119: the
\* failure is logged and the launch goes on)
InitRecover ==
    \E f \in RecoverFiles :
        \E b \in {EnsureInitialized(f), Absent} : InitDisk(f, b, TRUE)

NextRecover ==
    \/ Load
    \/ \E r \in SaveRequests : Save(r[1], r[2], r[3])
    \/ WriteOpen
    \/ WriteFinish

SpecRecover == InitRecover /\ [][NextRecover]_vars

\* imports, among saves and Loads, over a primary that holds a document
InitImport == Init /\ IS_CI /\ file = JsonStringify(Document1)

NextImport ==
    \/ \E b \in ImportBodies : Import(b)
    \/ \E r \in CoreSaveRequests : Save(r[1], r[2], r[3])
    \/ Load
    \/ WriteOpen
    \/ WriteFinish

SpecImport == InitImport /\ [][NextImport]_vars
\* saves of the keyed stores and the Loads that follow them
InitKeyed == Init /\ IS_CI /\ clean

NextKeyed ==
    \/ \E r \in KeyedRequests : Save(r[1], r[2], r[3])
    \/ Load
    \/ WriteOpen
    \/ WriteFinish

SpecKeyed == InitKeyed /\ [][NextKeyed]_vars
\* launches of the process one after another, from a disk on which it has
\* not run yet: DATA_FILE is missing or holds what some other run left
BootFiles == {Absent, Garbage, EmptyFile, JsonStringify(Document1)}

InitBoot ==
    /\ file \in BootFiles
    /\ backup = Absent
    /\ safety = Absent
    /\ phase = "exited"
    /\ IS_CI = FALSE
    /\ writeQueue = EmptyQueue
    /\ SHUTDOWN_TIMEOUT = Num(DEFAULT_TIMEOUT)
    /\ AUTO_SHUTDOWN_ENABLED = Bool(TRUE)
    /\ shutdownTimer = 0
    /\ timers = {}
    /\ now = 0
    /\ resp = NoResponse
    /\ launches = 0
    /\ call = NoCall
    /\ lastSignal = 0
    /\ expected = EmptyObj
    /\ clean = FALSE

NextBoot ==
    \/ Launch
    \/ \E r \in CoreSaveRequests : Save(r[1], r[2], r[3])
    \/ WriteOpen
    \/ WriteFinish
    \/ Tick
    \/ Expire

SpecBoot == InitBoot /\ [][NextBoot]_vars

\* saves of the accounts store, among Loads, over a primary that holds a
\* document
InitAccounts == Init /\ IS_CI /\ file = JsonStringify(Document1)

NextAccounts ==
    \/ \E r \in AccountRequests : Save(r[1], r[2], r[3])
    \/ Load
    \/ WriteOpen
    \/ WriteFinish

SpecAccounts == InitAccounts /\ [][NextAccounts]_vars

\* bodies of POST /api/settings/system whose timeout is no positive number
\* of seconds, and one whose timeout is
OddSettingsRequests ==
    {<<Num(0), Undefined>>, <<Num(-3), Undefined>>,
     <<Str(<<"a", "b", "c">>), Undefined>>, <<Num(5), Undefined>>}

\* settings updates and the passing of time, outside CI
InitSettings == Init /\ ~IS_CI /\ file = JsonStringify(initialData)

NextSettings ==
    \/ \E r \in OddSettingsRequests : UpdateSettings(r[1], r[2])
    \/ Tick
    \/ Expire

SpecSettings == InitSettings /\ [][NextSettings]_vars

\* every route of the server, with no time passing
InitRoutes == Init /\ IS_CI /\ file = JsonStringify(Document1)

NextRoutes ==
    \/ Load
    \/ \E r \in CoreSaveRequests : Save(r[1], r[2], r[3])
    \/ \E b \in CoreImportRequests : Import(b)
    \/ WriteOpen
    \/ WriteFinish
    \/ Heartbeat
    \/ \E r \in CoreSettingsRequests : UpdateSettings(r[1], r[2])
    \/ TabClosed

SpecRoutes == InitRoutes /\ [][NextRoutes]_vars

\* the library alone, called as the test suite calls it: no server runs
InitUtils ==
    /\ file = Absent
    /\ backup = Absent
    /\ safety = Absent
    /\ phase = "exited"
    /\ IS_CI = TRUE
    /\ writeQueue = EmptyQueue
    /\ SHUTDOWN_TIMEOUT = Num(DEFAULT_TIMEOUT)
    /\ AUTO_SHUTDOWN_ENABLED = Bool(TRUE)
    /\ shutdownTimer = 0
    /\ timers = {}
    /\ now = 0
    /\ resp = NoResponse
    /\ launches = 0
    /\ lastSignal = 0
    /\ expected = EmptyObj
    /\ clean = FALSE
    /\ \E c \in Calls : call = Pending(c)

NextUtils ==
    \/ CallSanitizeNumber
    \/ CallSanitizeString
    \/ CallNormalizeAccount

SpecUtils == InitUtils /\ [][NextUtils]_vars

(***************************************************************************)
(* Session lifecycle monitor                                               *)
(***************************************************************************)
\* the monitor is able to arm: the feature is on and the run is not automated
Armable == Truthy(AUTO_SHUTDOWN_ENABLED) /\ ~IS_CI

\* C6: while auto-shutdown is enabled the process ends only when timeoutMs
\* have passed since the last heartbeat (so heartbeats that arrive within
\* timeoutMs of each other keep it alive); a heartbeat leaves exactly the
\* countdown it starts, timeoutMs from now, and at no time is more than one
\* countdown pending.
HeartbeatKeepsAlive ==
    /\ [](Cardinality(timers) <= 1)
    /\ [][(phase = "running" /\ phase' = "exited" /\ SHUTDOWN_TIMEOUT.t = "num")
            => now >= lastSignal + SHUTDOWN_TIMEOUT.n]_vars
    /\ [][(Heartbeat /\ Armable /\ SHUTDOWN_TIMEOUT.t = "num" /\ SHUTDOWN_TIMEOUT.n >= 1)
            => timers' = {[id |-> shutdownTimer', due |-> now + SHUTDOWN_TIMEOUT.n]}]_vars

\* a heartbeat has kept the process alive past the deadline set at launch
HeartbeatKeepsAliveWitness ==
    /\ phase = "running" /\ Armable /\ launches = 0
    /\ resp.op = "heartbeat"
    /\ SHUTDOWN_TIMEOUT = Num(DEFAULT_TIMEOUT)
    /\ now > DEFAULT_TIMEOUT
    /\ lastSignal > 0

\* C7: with auto-shutdown enabled outside an automated run, a countdown is
\* pending from launch on and is due timeoutMs after the launch or the last
\* heartbeat or settings update; the process is never alive after that
\* moment, and once it has ended no countdown is left to end it again.
SilenceTerminates ==
    /\ (phase = "running" /\ Armable) =>
          /\ timers = {[id |-> shutdownTimer,
                        due |-> lastSignal + TimerDelay(SHUTDOWN_TIMEOUT)]}
          /\ now <= lastSignal + TimerDelay(SHUTDOWN_TIMEOUT)
    /\ phase = "exited" => timers = {}

\* the process has ended at the deadline set at launch, with no heartbeat
SilenceTerminatesWitness ==
    /\ phase = "exited" /\ launches = 0
    /\ resp = NoResponse
    /\ now = DEFAULT_TIMEOUT

\* C8: while auto-shutdown is disabled no countdown is pending, whatever
\* heartbeats and tab-closed signals arrive, and the process does not end.
DisabledNeverArms ==
    /\ []((phase = "running" /\ ~Truthy(AUTO_SHUTDOWN_ENABLED)) => timers = {})
    /\ [][(phase = "running" /\ ~Truthy(AUTO_SHUTDOWN_ENABLED)) => phase' = "running"]_vars

\* a heartbeat arrived while disabled and the process outlived the timeout
DisabledNeverArmsWitness ==
    /\ phase = "running" /\ ~IS_CI
    /\ ~Truthy(AUTO_SHUTDOWN_ENABLED)
    /\ resp.op = "heartbeat"
    /\ now > lastSignal + TimerDelay(SHUTDOWN_TIMEOUT)

\* the timeout, in ms, in force after a settings request <<timeout, enabled>>
RequestedTimeout(r) == IF r[1].t = "undefined" THEN SHUTDOWN_TIMEOUT ELSE TimeoutMs(r[1])
\* the enabled flag in force after a settings request
RequestedEnabled(r) == IF r[2].t = "undefined" THEN AUTO_SHUTDOWN_ENABLED ELSE r[2]

\* C9: a settings update stores the requested values and re-arms at once:
\* whatever countdown was pending is gone and, if the monitor is on (outside
\* an automated run), the only countdown is due the new timeout from now;
\* the response carries the timeout (in seconds) and the flag now in force.
SettingsRearm ==
    [][\A r \in SettingsRequests :
         UpdateSettings(r[1], r[2]) =>
            /\ SHUTDOWN_TIMEOUT' = RequestedTimeout(r)
            /\ AUTO_SHUTDOWN_ENABLED' = RequestedEnabled(r)
            /\ timers' = IF Truthy(RequestedEnabled(r)) /\ ~IS_CI
                         THEN {[id |-> shutdownTimer',
                                due |-> now + TimerDelay(RequestedTimeout(r))]}
                         ELSE {}
            /\ resp'.status = 200
            /\ resp'.body = Obj([success |-> Bool(TRUE),
                                 timeout |-> JsonValue(TimeoutSeconds(RequestedTimeout(r))),
                                 enabled |-> RequestedEnabled(r)])]_vars

\* a settings update has replaced a running countdown by one of 5 s
SettingsRearmWitness ==
    /\ phase = "running" /\ ~IS_CI
    /\ resp.op = "settings"
    /\ resp.body = Obj([success |-> Bool(TRUE), timeout |-> Num(5), enabled |-> Bool(TRUE)])
    /\ now > 0 /\ lastSignal = now
    /\ timers = {[id |-> shutdownTimer, due |-> now + 5000]}

\* C10: in an automated run (CI) no countdown is ever pending, from launch
\* on and after any heartbeats and settings updates, and the process does
\* not end.
CINeverArms == IS_CI => (timers = {} /\ phase = "running")

\* CI, after a settings update that asked for enabled = true, past its timeout
CINeverArmsWitness ==
    /\ IS_CI
    /\ resp.op = "settings"
    /\ AUTO_SHUTDOWN_ENABLED = Bool(TRUE)
    /\ SHUTDOWN_TIMEOUT.t = "num"
    /\ now > lastSignal + SHUTDOWN_TIMEOUT.n

InFlight == writeQueue.chain # <<>> /\ Head(writeQueue.chain).stage = "open"

\* C1: saves submitted one after another, the later ones before the earlier
\* writes have finished, all take effect: once the queue has drained (no
\* write having failed) the file holds the document that results from
\* applying every accepted save in submission order.
SerializedSaves ==
    (phase = "running" /\ clean /\ writeQueue.chain = <<>>)
        => file = JsonStringify(expected)

\* C2: a pending write leaves the chain only after it has been attempted
\* against the file (it was opened, or its open failed), also when the
\* write before it failed.
EveryWriteAttempted ==
    [][(phase = "running" /\ writeQueue.chain # <<>>
        /\ writeQueue'.chain = Tail(writeQueue.chain))
          => (Head(writeQueue.chain).stage = "open" \/ writeQueue.base = "fulfilled")]_vars

\* C3: a Load that runs while a queued write is in flight (nothing having
\* failed before) reads a complete document: it answers 200 and does not
\* take the backup-restore path.
AtomicReplace ==
    [][(clean /\ InFlight /\ Load) => (resp'.status = 200 /\ file' = file)]_vars

\* C4: the primary file changes only in the steps of a queued write.
OnlyQueueWritesPrimary ==
    [][(phase = "running" /\ file' # file) => (WriteOpen \/ WriteFinish)]_vars

\* C5: when the process has terminated, no write is left started and
\* unfinished (so the primary is not left truncated by the termination).
InFlightWriteCompletes == phase = "exited" => ~InFlight

(***************************************************************************)
(* Backup manager and Load                                                 *)
(***************************************************************************)
\* C12: a Load that finds a primary that does not parse and a backup that
\* does answers 200 with the backup's content and leaves the primary
\* holding the bytes of the backup.
BackupRecovery ==
    [][(phase = "running" /\ ~Parses(file) /\ backup # Absent /\ Parses(backup)
        /\ resp'.op = "load" /\ UNCHANGED writeQueue /\ UNCHANGED safety)
          => /\ resp'.status = 200
             /\ resp'.body = JsonParse(backup)
             /\ file' = backup
             /\ backup' = backup]_vars

\* a Load was answered from the backup while a write had the primary
\* truncated, and the primary now holds the backup
BackupRecoveryWitness ==
    /\ resp.op = "load" /\ resp.status = 200
    /\ InFlight
    /\ Parses(backup) /\ file = backup
    /\ resp.body = JsonParse(backup)

\* C13: a Load that finds a primary that does not parse, and a backup that
\* is missing or does not parse either, answers 500 and leaves the primary
\* and the backup as they are.
UnrecoverableStore ==
    [][(phase = "running" /\ ~Parses(file) /\ (backup = Absent \/ ~Parses(backup))
        /\ resp'.op = "load" /\ UNCHANGED writeQueue /\ UNCHANGED safety)
          => /\ resp'.status = 500
             /\ file' = file
             /\ backup' = backup]_vars

\* a Load was answered 500 over a primary that does not parse, with no
\* backup on the disk
UnrecoverableStoreWitness ==
    /\ resp.op = "load" /\ resp.status = 500
    /\ ~Parses(file) /\ backup = Absent

\* the five stores are present, each with its container type
IsDocument(d) ==
    /\ d.t = "obj"
    /\ ALLOWED_STORES \subseteq DOMAIN d.o
    /\ \A k \in {"accounts", "goals"} : d.o[k].t = "arr"
    /\ \A k \in {"profile", "timeline", "settings"} : d.o[k].t = "obj"

\* C14: the body of every Load answered 200 is a Document with its five
\* stores, also when it is served from the backup.
LoadReturnsDocument ==
    (resp.op = "load" /\ resp.status = 200) => IsDocument(resp.body)

(***************************************************************************)
(* Save store                                                              *)
(***************************************************************************)
\* C15: a save whose store name is missing or is none of the five stores
\* is answered 400 and has no other effect: no file changes and no write
\* is queued, whatever the primary holds at that moment.
UnknownStoreRejected ==
    [][\A r \in KeyedRequests :
          (r[1] \notin ALLOWED_STORES /\ Save(r[1], r[2], r[3]))
            => /\ resp'.op = "save" /\ resp'.status = 400
               /\ UNCHANGED <<file, backup, safety, writeQueue>>]_vars

\* a save of an unknown store was answered 400 while the primary was
\* truncated by the write of an earlier save, which is still in flight
UnknownStoreRejectedWitness ==
    /\ resp.op = "save" /\ resp.status = 400
    /\ resp.body = JsonValue(Obj([error |-> Text("Invalid storeName")]))
    /\ InFlight /\ file = EmptyFile

\* the keys of a mapping; a value that is no mapping has none
Keys(v) == IF v.t = "obj" THEN DOMAIN v.o ELSE {}

\* the store as the write queued last will leave it
QueuedStore(q, storeName) ==
    Get(JsonParse(q.chain[Len(q.chain)].payload), storeName)

\* C16: a save to profile or timeline under a key, made while no write is
\* pending over a primary that parses, queues a document whose store has
\* the value at that key and every other key of the store as the primary
\* has it; a save without a key to a store other than accounts queues a
\* document whose store is the value.
KeyedSaveMerges ==
    [][\A r \in KeyedRequests :
          (r[1] \in ALLOWED_STORES \ {"accounts"} /\ writeQueue.chain = <<>>
           /\ Parses(file) /\ Save(r[1], r[2], r[3]))
            => /\ writeQueue'.chain # <<>>
               /\ IF r[1] \in {"profile", "timeline"} /\ Truthy(r[3])
                  THEN /\ Get(QueuedStore(writeQueue', r[1]), r[3].s[1]) = JsonValue(r[2])
                       /\ \A k \in Keys(Get(JsonParse(file), r[1])) \ {r[3].s[1]} :
                             Get(QueuedStore(writeQueue', r[1]), k)
                                = Get(Get(JsonParse(file), r[1]), k)
                  ELSE QueuedStore(writeQueue', r[1]) = JsonValue(r[2])]_vars

(***************************************************************************)
(* Import                                                                  *)
(***************************************************************************)
\* C17: when the write of an import starts to overwrite the primary, the
\* import-safety file holds the bytes that the primary holds at that
\* moment, which are the bytes the write replaces.
SafetyHoldsReplaced ==
    [][(WriteOpen /\ Head(writeQueue.chain).op = "import") => safety = file]_vars

\* the body is an object in the sense of the handler's test
Importable(b) == Truthy(b) /\ IsObjectType(b)

NormalizedDocuments == {normalizeData(b) : b \in {RawDocument1, Partial1}}

InitializationIdempotent ==
    /\ [][(phase = "exited" /\ phase' = "running") =>
            IF file = Absent
            THEN file' = [kind |-> "json",
                          val |-> Obj([accounts |-> EmptyArr, profile |-> EmptyObj,
                                       timeline |-> EmptyObj, goals |-> EmptyArr,
                                       settings |-> EmptyObj])]
            ELSE file' = file]_vars
    /\ [](launches >= 1 => file # Absent)

\* the process was launched over a disk without DATA_FILE and then once
\* more, and the file is as the first launch created it
InitializationIdempotentWitness ==
    /\ launches = 2 /\ phase = "running" /\ now = 0
    /\ file = JsonStringify(initialData)

(***************************************************************************)
(* The library: normalizeAccount, sanitizeNumber, sanitizeString           *)
(***************************************************************************)
\* a '<' with a '>' somewhere after it: the text has a span <...>
HasTag(s) == \E i \in 1..Len(s) : \E j \in (i + 1)..Len(s) : s[i] = "<" /\ s[j] = ">"
Trimmed(s) == s = <<>> \/ (~IsSpace(s[1]) /\ ~IsSpace(s[Len(s)]))
IsText(v, n) == v.t = "str" /\ Len(v.s) <= n /\ ~HasTag(v.s)
InRange(v, min, max) == v.t = "num" /\ ~NumLt(v, Num(min)) /\ ~NumLt(Num(max), v)
Finished(fn) == call.fn = fn /\ call.state # "pending"

\* C23: every call of normalizeAccount returns; the result is null for an
\* input that is no object, and for an object it is a record whose id is a
\* non-negative integer, name and category are texts of at most 100
\* characters without tags, type is at most 20 characters and "expense" when
\* not given, the payments lie in [0, 1e9], hasReminder, status and priority
\* have their defaults when not given, and ownerId is a string or null.
NormalizeAccountCanonical ==
    Finished("normalizeAccount") =>
        LET account == call.args[1]
            r == call.result
            Given(k) == Get(account, k) # Undefined
        IN  /\ call.state = "returned"
            /\ (account.t \notin {"obj", "arr"}) => r = Null
            /\ (account.t \in {"obj", "arr"}) =>
                /\ r.t = "obj"
                /\ DOMAIN r.o = {"id", "name", "category", "type", "monthlyPayment",
                                 "annualPayment", "hasReminder", "status",
                                 "priority", "ownerId"}
                /\ r.o.id.t = "num" /\ r.o.id.f = 0 /\ r.o.id.n >= 0
                /\ IsText(r.o.name, 100) /\ IsText(r.o.category, 100)
                /\ IsText(r.o.type, 20)
                /\ ~Given("type") => r.o.type = Str(<<"e", "x", "p", "e", "n", "s", "e">>)
                /\ InRange(r.o.monthlyPayment, 0, 1000000000)
                /\ InRange(r.o.annualPayment, 0, 1000000000)
                /\ ~Given("hasReminder") => r.o.hasReminder = Str(<<"N", "o">>)
                /\ ~Given("status") => r.o.status = Str(<<"A", "c", "t", "i", "v", "e">>)
                /\ ~Given("priority") =>
                       r.o.priority = Str(<<"I", "m", "p", "o", "r", "t", "a", "n", "t">>)
                /\ r.o.ownerId.t \in {"str", "null"}

\* C24: every call of sanitizeNumber returns a number of [min, max]: min when
\* the value does not parse as a number, the parsed number when it lies in
\* the range, the nearer end of the range otherwise.
SanitizeNumberClamps ==
    Finished("sanitizeNumber") =>
        LET value == call.args[1]
            min == call.args[2]
            max == call.args[3]
            num == IF value.t = "num" THEN value
                   ELSE ParseFloatText(SkipSpaces(StringOf(value)))
        IN  /\ call.state = "returned"
            /\ InRange(call.result, min, max)
            /\ call.result = IF num.t = "nan" THEN Num(min)
                             ELSE IF NumLt(num, Num(min)) THEN Num(min)
                             ELSE IF NumLt(Num(max), num) THEN Num(max)
                             ELSE num
            /\ (max = 10 /\ value = Str(<<"a", "b", "c">>)) => call.result = Num(0)
            /\ (max = 10 /\ value = Str(<<"1", "5">>)) => call.result = Num(10)
            /\ (max = 10 /\ value = Str(<<"5">>)) => call.result = Num(5)

\* C25: every call of sanitizeString returns a text that has no span <...>,
\* neither starts nor ends with whitespace and is at most maxLength
\* characters long; it is empty for an empty or undefined value.
SanitizeTextClean ==
    Finished("sanitizeString") =>
        /\ call.state = "returned"
        /\ call.result.t = "str"
        /\ ~HasTag(call.result.s)
        /\ Trimmed(call.result.s)
        /\ Len(call.result.s) <= call.args[2]
        /\ call.args[1] \in {Undefined, Str(<<>>)} => call.result = Str(<<>>)

(***************************************************************************)
(* The accounts store                                                      *)
(***************************************************************************)
\* the record of an account that was sent with a name and payments only
CanonicalAccount(name, monthlyPayment, annualPayment) ==
    Obj([id |-> Num(0), name |-> name, category |-> Str(<<>>),
         type |-> Str(<<"e", "x", "p", "e", "n", "s", "e">>),
         monthlyPayment |-> monthlyPayment, annualPayment |-> annualPayment,
         hasReminder |-> Str(<<"N", "o">>),
         status |-> Str(<<"A", "c", "t", "i", "v", "e">>),
         priority |-> Str(<<"I", "m", "p", "o", "r", "t", "a", "n", "t">>),
         ownerId |-> Null])
Rent == Str(<<"R", "e", "n", "t">>)
\* what AccountLists[i] is to become: one record per object, in order
CanonicalLists ==
    <<Arr(<<CanonicalAccount(Rent, Dec(1200, 5), Num(0))>>),
      Arr(<<CanonicalAccount(Rent, Dec(1200, 5), Num(0)),
            CanonicalAccount(Str(<<"C", "a", "r">>), Num(300), Num(0))>>),
      Arr(<<CanonicalAccount(Str(<<"G", "y", "m">>), Num(0), Num(0)),
            CanonicalAccount(Str(<<"T", "a", "x">>), Num(0), Num(0))>>),
      Arr(<<CanonicalAccount(Rent, Num(0), Num(0))>>)>>
QueuedLast(q) == JsonParse(q.chain[Len(q.chain)].payload)
Landed == resp.op = "save" /\ resp.status = 200 /\ writeQueue.chain = <<>> /\ clean

\* C21: a save of the accounts store with a list of raw account objects
\* queues a document whose accounts are one record per object, in order,
\* each in canonical form (tags stripped from the name, payments parsed as
\* numbers, status "Active") with id 0 where the raw object carried none,
\* and a Load made once that write has landed returns these accounts.
AccountsEndToEnd ==
    /\ [][\A i \in 1..3 : Save("accounts", AccountLists[i], Undefined) =>
            /\ Len(writeQueue'.chain) = Len(writeQueue.chain) + 1
            /\ Get(QueuedLast(writeQueue'), "accounts") = CanonicalLists[i]]_vars
    /\ [][\A i \in 1..3 :
            (Landed /\ Get(expected, "accounts") = CanonicalLists[i] /\ Load) =>
                /\ resp'.status = 200
                /\ Get(resp'.body, "accounts") = CanonicalLists[i]]_vars

\* the list with the account named "<b>Rent</b>" was saved, its write has
\* landed and a Load has answered with the single canonical account
AccountsEndToEndWitness ==
    /\ resp.op = "load" /\ resp.status = 200 /\ clean /\ writeQueue.chain = <<>>
    /\ Get(resp.body, "accounts") = CanonicalLists[1]
    /\ Get(JsonParse(file), "accounts") = CanonicalLists[1]

\* C21 as stated: the accounts a Load returns have ids that were assigned,
\* each a positive number of its own.
AccountsIdsAssigned ==
    (resp.op = "load" /\ resp.status = 200 /\ Get(resp.body, "accounts").t = "arr") =>
        LET a == Get(resp.body, "accounts").a
        IN  \A i \in 1..Len(a) :
                /\ Get(a[i], "id").t = "num" /\ Get(a[i], "id").n >= 1
                /\ \A j \in 1..Len(a) : i # j => Get(a[i], "id") # Get(a[j], "id")

\* C22: every save of the accounts store with a list succeeds: it queues a
\* document whose accounts are the records of the elements that can be
\* turned into one, in their order, whatever the other elements are.
AccountsSaveNeverFails ==
    /\ [][\A i \in 1..4 : Save("accounts", AccountLists[i], Undefined) =>
            /\ Len(writeQueue'.chain) = Len(writeQueue.chain) + 1
            /\ Get(QueuedLast(writeQueue'), "accounts") = CanonicalLists[i]]_vars
    /\ []~(resp.op = "save" /\ resp.status = 500)

(***************************************************************************)
(* Order of the writes                                                     *)
(***************************************************************************)
\* C26: only the oldest pending write may have the file open, the others
\* wait for it; while it has the file open no other step writes the file;
\* and when the last pending write finishes, none having failed, the file
\* holds its payload.
WritesOneAtATime ==
    /\ [](\A i \in 2..Len(writeQueue.chain) : writeQueue.chain[i].stage = "waiting")
    /\ [][(InFlight /\ file' # file) => WriteFinish]_vars
    /\ [][(WriteFinish /\ writeQueue'.chain = <<>>) =>
            file' = Head(writeQueue.chain).payload]_vars

(***************************************************************************)
(* Frame of a save, and the backup across launches                         *)
(***************************************************************************)
\* the latest document that can be recovered: the primary if it parses,
\* otherwise the backup
Recoverable == Parses(file) \/ (backup # Absent /\ Parses(backup))
LatestRecoverable == IF Parses(file) THEN JsonParse(file) ELSE JsonParse(backup)

\* C27: a save that is accepted while a document can be recovered queues a
\* document in which every store other than the one saved is as in the
\* latest recoverable document, also when the primary does not parse.
SaveKeepsOtherStores ==
    [][\A r \in SaveRequests :
        (Recoverable /\ Save(r[1], r[2], r[3])
         /\ Len(writeQueue'.chain) = Len(writeQueue.chain) + 1)
          => \A k \in ALLOWED_STORES \ {r[1]} :
                Get(QueuedLast(writeQueue'), k) = Get(LatestRecoverable, k)]_vars

\* C28: a launch that finds a backup holding a document leaves a backup that
\* holds a document, whatever the primary holds at that launch.
BackupSurvivesRestart ==
    [][(phase = "exited" /\ phase' = "running" /\ backup # Absent /\ Parses(backup))
          => (backup' # Absent /\ Parses(backup'))]_vars

(***************************************************************************)
(* The timeout a client sets                                               *)
(***************************************************************************)
\* C29: SHUTDOWN_TIMEOUT is a positive number of milliseconds whatever the
\* settings requests were, and a pending countdown runs for at least one
\* second from the request that armed it.
TimeoutStaysPositive ==
    /\ SHUTDOWN_TIMEOUT.t = "num" /\ SHUTDOWN_TIMEOUT.n > 0
    /\ \A t \in timers : t.due >= lastSignal + 1000

(***************************************************************************)
(* The startup backup while the server runs                                *)
(***************************************************************************)
\* C30: no step of the running server changes the startup backup: not a
\* Load, also when it restores the primary, nor a save, an import, a write
\* of the queue, a heartbeat, a settings update or a tab-closed message; a
\* Load that restores leaves the primary holding that backup.
BackupUntouched ==
    /\ [][(phase = "running" /\ phase' = "running") => backup' = backup]_vars
    /\ [][(Load /\ file' # file) => file' = backup']_vars

\* an import and a settings update were handled, and a Load made while a
\* write had the primary truncated has restored it from the backup, which
\* holds the document of the launch
BackupUntouchedWitness ==
    /\ resp.op = "load" /\ resp.status = 200
    /\ safety # Absent
    /\ SHUTDOWN_TIMEOUT = Num(5000)
    /\ InFlight
    /\ backup = JsonStringify(Document1)
    /\ file = backup


====
